---- MODULE Spec2Model ----
(***************************************************************************)
(* Quasi-Newton GLM fit / predict entry points (cpp/src/glm/qn/qn.h).      *)
(*                                                                         *)
(* qnFit, qn_fit and qnPredict are translated from qn.h.  The minimizer    *)
(* (qn_minimize, qn_solvers.h), linearFwd / GLMDims (glm_base.h) and       *)
(* Matrix::argmax (matrix/math.h) are not part of qn.h; they are modelled  *)
(* from the design text: the minimizer as the state machine of its section *)
(* "QN Minimizer", with the numerical tests (gradient norm below the       *)
(* tolerance, sufficient decrease of a trial step, sign of the curvature   *)
(* product) drawn nondeterministically.                                    *)
(*                                                                         *)
(* Data are small integers.  Samples have one feature; the weight vector   *)
(* minimised by a fit is represented by one integer coordinate.            *)
(***************************************************************************)
EXTENDS Integers, Sequences, FiniteSets, TLC

\* ---------------------------------------------------------------- bounds
MaxC == 2          \* largest class count C a caller passes
MaxN == 2          \* largest sample count N
MaxIter == 3       \* largest max_iter
MaxLS == 2         \* largest linesearch_max_iter
MaxMem == 2        \* largest lbfgs_memory

LossTypes == -1 .. 3                 \* loss_type values a caller may pass
FeatVals == {-1, 1}                  \* entries of X
WeightVals == {-1, 0, 1}             \* entries of params
L2Vals == {-1, 0, 1}                 \* values of l2
StepVals == {1}                      \* weight change of an accepted step
GradVals == {-1, 0, 1}               \* gradient change of an accepted step

VARIABLES
  pc,            \* position of the running call
  kind,          \* "none", "fit", "predict"
  loss_type, C, N, fit_intercept,
  l2, max_iter, linesearch_max_iter, lbfgs_memory,
  X, y,          \* caller's data
  params,        \* fitted weights handed to qnPredict (C rows of dims entries)
  preds,         \* qnPredict output buffer (<<>> while unwritten)
  w0, f, num_iters, \* qnFit outputs
  written,       \* outputs the current call has written
  held,          \* scratch buffers currently held
  acquired,      \* scratch buffers acquired by the current call
  tmpSize,       \* element count of the acquired scratch buffer
  Z,             \* contents of the scratch buffer (<<>> while unwritten)
  outcome,       \* "none", "normal", "assert"
  work,          \* what the current call has done so far
  opt_param,     \* LBFGSParam of the current fit
  objective,     \* what the minimizer is driven on
  invocations,   \* calls of qn_minimize made by the current fit
  status, mpc, k, trials, hist, pushes, step, lastAccepted   \* minimizer

vars == <<pc, kind, loss_type, C, N, fit_intercept, l2, max_iter,
          linesearch_max_iter, lbfgs_memory, X, y, params, preds, w0, f,
          num_iters, written, held, acquired, tmpSize, Z, outcome, work,
          opt_param, objective, invocations, status, mpc, k, trials, hist, step,
          lastAccepted>>

inputVars == <<kind, loss_type, C, N, fit_intercept, l2, max_iter,
               linesearch_max_iter, lbfgs_memory>>
minVars == <<status, mpc, k, trials, hist, pushes, step, lastAccepted>>

\* ------------------------------------------------------------ pure parts

\* switch (loss_type) with its ASSERTs: TRUE when no assertion fires.
SwitchOKLoose(lt, c) ==
  CASE lt = 0 -> c = 1
    [] lt = 1 -> c = 1
    [] lt = 2 -> c >= 1
    [] OTHER -> FALSE

SwitchOK(lt, c) ==
  CASE lt = 0 -> c = 1
    [] lt = 1 -> c = 1
    [] lt = 2 -> c > 1
    [] OTHER -> FALSE

\* the logistic decision lambda
threshInclusive(z) == IF z >= 0 THEN 1 ELSE 0

thresh(z) == IF z > 0 THEN 1 ELSE 0

\* qn_fit: the test that selects the regularized branch
UseTikhonovPositive(l) == l > 0

UseTikhonov(l) == ~(l = 0)

\* qn_fit: LBFGSParam fields
opt_max_iterationsOffByOne(mi) == mi + 1

opt_max_iterations(mi) == mi

opt_mOffByOne(mem) == mem + 1

opt_m(mem) == mem

\* qn_fit hands (Xptr, yptr, zptr) to GLMWithData: the buffer the objective
\* uses as scratch.
GLMWithDataScratchSwapped == "y"

GLMWithDataScratch == "z"

\* qnFit is void and ignores qn_fit's return code.
qnFitOutcomeChecked(ret) ==
  IF ret = "ConvergedGradient" THEN "normal" ELSE "assert"

qnFitOutcome(ret) == "normal"

\* qn_fit returns what qn_minimize returned, whatever it is.
AfterMinimizeRetry(ret) ==
  IF ret = "LineSearchFailed" THEN "again" ELSE "return"

AfterMinimize(ret) == "return"

\* device_buffer goes out of scope (normal return or unwinding).
ReleaseOnUnwindLeak(h, how) == IF how = "assert" THEN h ELSE h - 1

ReleaseOnUnwind(h, how) == h - 1

\* GLMDims: weights per class
GLMDims(intercept) == IF intercept THEN 2 ELSE 1

\* linearFwd: Z <- W * X^T (+ bias)
linearFwd(W, Xm, c, n, intercept) ==
  [i \in 1 .. c |->
     [j \in 1 .. n |-> W[i][1] * Xm[j] + (IF intercept THEN W[i][2] ELSE 0)]]

\* Matrix::argmax: zero-based row of the (first) maximal entry of a column
RECURSIVE ArgmaxFrom(_, _, _, _)
ArgmaxFrom(Zm, j, i, best) ==
  IF i > Len(Zm) THEN best
  ELSE ArgmaxFrom(Zm, j, i + 1, IF Zm[i][j] > Zm[best][j] THEN i ELSE best)

argmax(Zm, c, n) == [j \in 1 .. n |-> ArgmaxFrom(Zm, j, 1, 1) - 1]

\* value of the objective at weight w (loss w^2, plus l2 * ||w||^2 when wrapped)
ObjectiveValue(obj, l, w) ==
  w * w + (IF obj = "regularized" THEN l * w * w ELSE 0)

\* linear predictor the loss leaves in its scratch buffer when evaluated at w
LossScratch(w, Xm, c, n) == [i \in 1 .. c |-> [j \in 1 .. n |-> w * Xm[j]]]

States == {"Running", "ConvergedGradient", "MaxIterationsReached",
           "LineSearchFailed"}

NoParam == [max_iterations |-> 0, m |-> 0, max_linesearch |-> 0]

\* ----------------------------------------------------------------- Init
Init ==
  /\ pc = "idle" /\ kind = "none"
  /\ loss_type = 0 /\ C = 0 /\ N = 0 /\ fit_intercept = FALSE
  /\ l2 = 0 /\ max_iter = 0 /\ linesearch_max_iter = 0 /\ lbfgs_memory = 0
  /\ X = <<>> /\ y = <<>> /\ params = <<>> /\ preds = <<>>
  /\ w0 = 0 /\ f = 0 /\ num_iters = 0 /\ written = {}
  /\ held = 0 /\ acquired = 0 /\ tmpSize = 0 /\ Z = <<>>
  /\ outcome = "none" /\ work = {}
  /\ opt_param = NoParam /\ objective = "none" /\ invocations = 0
  /\ status = "none" /\ mpc = "none" /\ k = 0 /\ trials = 0
  /\ hist = <<>> /\ pushes = 0 /\ step = 0 /\ lastAccepted = 0

\* ------------------------------------------------------ caller's actions
CallFit ==
  /\ pc = "idle"
  /\ pc' = "fit_alloc" /\ kind' = "fit"
  /\ loss_type' \in LossTypes
  /\ C' \in 0 .. MaxC
  /\ N' \in 1 .. MaxN
  /\ fit_intercept' = FALSE
  /\ l2' \in L2Vals
  /\ max_iter' \in 1 .. MaxIter
  /\ linesearch_max_iter' \in 1 .. MaxLS
  /\ lbfgs_memory' \in 0 .. MaxMem
  /\ X' \in [1 .. N' -> FeatVals]
  /\ y' = [j \in 1 .. N' |-> j % 2]
  /\ UNCHANGED <<params, preds, w0, f, num_iters, written, held, acquired,
                 tmpSize, Z, outcome, work, opt_param, objective, invocations, minVars>>

CallPredict ==
  /\ pc = "idle"
  /\ pc' = "pred_alloc" /\ kind' = "predict"
  /\ loss_type' \in LossTypes
  /\ C' \in 0 .. MaxC
  /\ N' \in 1 .. MaxN
  /\ fit_intercept' \in BOOLEAN
  /\ X' \in [1 .. N' -> FeatVals]
  /\ params' \in [1 .. C' -> [1 .. GLMDims(fit_intercept') -> WeightVals]]
  /\ UNCHANGED <<l2, max_iter, linesearch_max_iter, lbfgs_memory, y, preds,
                 w0, f, num_iters, written, held, acquired, tmpSize, Z, outcome, work,
                 opt_param, objective, invocations, minVars>>

\* the caller takes the results and its buffers back
Reset ==
  /\ pc = "done"
  /\ pc' = "idle" /\ kind' = "none"
  /\ loss_type' = 0 /\ C' = 0 /\ N' = 0 /\ fit_intercept' = FALSE
  /\ l2' = 0 /\ max_iter' = 0 /\ linesearch_max_iter' = 0 /\ lbfgs_memory' = 0
  /\ X' = <<>> /\ y' = <<>> /\ params' = <<>> /\ preds' = <<>>
  /\ w0' = 0 /\ f' = 0 /\ num_iters' = 0 /\ written' = {}
  /\ acquired' = 0 /\ tmpSize' = 0 /\ Z' = <<>>
  /\ outcome' = "none" /\ work' = {}
  /\ opt_param' = NoParam /\ objective' = "none" /\ invocations' = 0
  /\ status' = "none" /\ mpc' = "none" /\ k' = 0 /\ trials' = 0
  /\ hist' = <<>> /\ pushes' = 0 /\ step' = 0 /\ lastAccepted' = 0
  /\ UNCHANGED held

\* ---------------------------------------------------------------- qnFit
\* device_buffer tmp(..., C * N); SimpleMat z(tmp.data(), C, N)
FitAlloc ==
  /\ pc = "fit_alloc"
  /\ held' = held + 1 /\ acquired' = acquired + 1 /\ tmpSize' = C * N
  /\ work' = work \cup {"alloc"}
  /\ pc' = "fit_switch"
  /\ UNCHANGED <<inputVars, X, y, params, preds, w0, f, num_iters, written, Z, outcome,
                 opt_param, objective, invocations, minVars>>

\* switch (loss_type): a failed ASSERT throws out of qnFit
FitSwitchAbort ==
  /\ pc = "fit_switch"
  /\ ~SwitchOK(loss_type, C)
  /\ outcome' = "assert"
  /\ held' = ReleaseOnUnwind(held, "assert")
  /\ pc' = "done"
  /\ UNCHANGED <<inputVars, X, y, params, preds, w0, f, num_iters, written, acquired,
                 tmpSize, Z, work, opt_param, objective, invocations, minVars>>

\* switch (loss_type): the loss is constructed and qn_fit entered
FitSwitchLoss ==
  /\ pc = "fit_switch"
  /\ SwitchOK(loss_type, C)
  /\ work' = work \cup {"loss"}
  /\ pc' = "qn_fit"
  /\ UNCHANGED <<inputVars, X, y, params, preds, w0, f, num_iters, written, held,
                 acquired, tmpSize, Z, outcome, opt_param, objective,
                 invocations, minVars>>
\* GLMWithData::operator(): the bound loss is evaluated at w and overwrites
\* the buffer it was given as scratch
Evaluate(w) ==
  /\ work' = work \cup {"objective"}
  /\ IF GLMWithDataScratch = "z"
       THEN Z' = LossScratch(w, X, C, N) /\ y' = y
       ELSE y' = LossScratch(w, X, C, N)[1] /\ Z' = Z

\* qn_minimize entered: iteration count zero, empty history, objective
\* evaluated at the initial weights
MinimizerStart(obj) ==
  /\ invocations' = invocations + 1
  /\ status' = "Running" /\ mpc' = "grad_check"
  /\ k' = 0 /\ trials' = 0 /\ hist' = <<>> /\ pushes' = 0 /\ step' = 0
  /\ lastAccepted' = w0
  /\ Evaluate(w0)
  /\ f' = ObjectiveValue(obj, l2, w0) /\ num_iters' = 0
  /\ written' = written \cup {"f", "num_iters"}

\* qn_fit: LBFGSParam set up, Tikhonov wrapping decided, qn_minimize called
QnFit ==
  /\ pc = "qn_fit"
  /\ opt_param' = [max_iterations |-> opt_max_iterations(max_iter),
                   m |-> opt_m(lbfgs_memory),
                   max_linesearch |-> linesearch_max_iter]
  /\ objective' = IF UseTikhonov(l2) THEN "regularized" ELSE "unregularized"
  /\ MinimizerStart(objective')
  /\ pc' = "minimize"
  /\ UNCHANGED <<inputVars, X, params, preds, w0, held, acquired, tmpSize,
                 outcome>>

\* ------------------------------------------------------- QN minimizer
MinRunning == pc = "minimize" /\ status = "Running"

\* 1. gradient check
GradCheck ==
  /\ MinRunning /\ mpc = "grad_check"
  /\ \E small \in BOOLEAN :
       IF small
         THEN status' = "ConvergedGradient" /\ mpc' = "stopped"
         ELSE status' = status /\ mpc' = "direction"
  /\ UNCHANGED <<pc, inputVars, X, y, params, preds, w0, f, num_iters,
                 written, held, acquired, tmpSize, Z, outcome, work, opt_param,
                 objective, invocations, k, trials, hist, pushes, step,
                 lastAccepted>>

\* 2./3. search direction from the history (two-loop recursion)
Direction ==
  /\ MinRunning /\ mpc = "direction"
  /\ mpc' = "line_search" /\ trials' = 0
  /\ work' = work \cup {"step"}
  /\ UNCHANGED <<pc, inputVars, X, y, params, preds, w0, f, num_iters,
                 written, held, acquired, tmpSize, Z, outcome, opt_param,
                 objective, invocations, status, k, hist, pushes, step,
                 lastAccepted>>

\* 4. one line-search trial: the objective is evaluated at the candidate,
\* which is accepted or not
LineSearchTrial ==
  /\ MinRunning /\ mpc = "line_search"
  /\ trials < opt_param.max_linesearch
  /\ trials' = trials + 1
  /\ \E d \in StepVals, ok \in BOOLEAN :
       /\ Evaluate(w0 + d)
       /\ IF ok
            THEN /\ w0' = w0 + d /\ step' = d /\ lastAccepted' = w0 + d
                 /\ f' = ObjectiveValue(objective, l2, w0 + d)
                 /\ written' = written \cup {"w0", "f"}
                 /\ mpc' = "curvature"
            ELSE UNCHANGED <<w0, step, lastAccepted, f, written, mpc>>
  /\ UNCHANGED <<pc, inputVars, X, params, preds, num_iters, held, acquired,
                 tmpSize, outcome, opt_param, objective, invocations, status,
                 k, hist, pushes>>

\* 4. the trial budget is used up without an acceptable step
LineSearchExhausted ==
  /\ MinRunning /\ mpc = "line_search"
  /\ trials >= opt_param.max_linesearch
  /\ status' = "LineSearchFailed" /\ mpc' = "stopped"
  /\ UNCHANGED <<pc, inputVars, X, y, params, preds, w0, f, num_iters,
                 written, held, acquired, tmpSize, Z, outcome, work, opt_param,
                 objective, invocations, k, trials, hist, pushes, step,
                 lastAccepted>>

\* bounded history: the oldest pair leaves when the bound is exceeded
Push(h, p, m) ==
  LET a == Append(h, p) IN IF Len(a) > m THEN Tail(a) ELSE a

\* 5. curvature update, skipped when the product is not positive
CurvatureUpdate ==
  /\ MinRunning /\ mpc = "curvature"
  /\ \E dg \in GradVals :
       IF step * dg > 0
         THEN /\ hist' = Push(hist, [s |-> step, y |-> dg, it |-> k],
                              opt_param.m)
              /\ pushes' = pushes + 1
         ELSE UNCHANGED <<hist, pushes>>
  /\ mpc' = "bookkeeping"
  /\ UNCHANGED <<pc, inputVars, X, y, params, preds, w0, f, num_iters,
                 written, held, acquired, tmpSize, Z, outcome, work, opt_param,
                 objective, invocations, status, k, trials, step,
                 lastAccepted>>

\* 6. iteration count, stop at the cap
Bookkeeping ==
  /\ MinRunning /\ mpc = "bookkeeping"
  /\ k' = k + 1 /\ num_iters' = k + 1
  /\ IF k + 1 >= opt_param.max_iterations
       THEN status' = "MaxIterationsReached" /\ mpc' = "stopped"
       ELSE status' = status /\ mpc' = "grad_check"
  /\ UNCHANGED <<pc, inputVars, X, y, params, preds, w0, f, written, held,
                 acquired, tmpSize, Z, outcome, work, opt_param, objective,
                 invocations, trials, hist, pushes, step, lastAccepted>>

\* qn_minimize has returned: qn_fit returns its code, qnFit drops it, the
\* scratch buffer goes out of scope
QnFitReturn ==
  /\ pc = "minimize" /\ status \in States \ {"Running"}
  /\ IF AfterMinimize(status) = "return"
       THEN /\ pc' = "done"
            /\ outcome' = qnFitOutcome(status)
            /\ held' = ReleaseOnUnwind(held, outcome')
            /\ UNCHANGED <<y, f, num_iters, written, Z, work, invocations,
                           minVars>>
       ELSE /\ MinimizerStart(objective)
            /\ UNCHANGED <<pc, outcome, held>>
  /\ UNCHANGED <<inputVars, X, params, preds, w0, acquired, tmpSize,
                 opt_param, objective>>

\* ------------------------------------------------------------ qnPredict
\* GLMDims, the X / P views, device_buffer tmp(..., C * N), the Z view
PredAlloc ==
  /\ pc = "pred_alloc"
  /\ held' = held + 1 /\ acquired' = acquired + 1 /\ tmpSize' = C * N
  /\ work' = work \cup {"alloc"}
  /\ pc' = "pred_fwd"
  /\ UNCHANGED <<inputVars, X, y, params, preds, w0, f, num_iters, written,
                 Z, outcome, opt_param, objective, invocations, minVars>>

\* SimpleMat W(params, C, dims.dims); linearFwd(handle, Z, X, W, stream)
PredLinearFwd ==
  /\ pc = "pred_fwd"
  /\ Z' = linearFwd(params, X, C, N, fit_intercept)
  /\ work' = work \cup {"linearFwd"}
  /\ pc' = "pred_switch"
  /\ UNCHANGED <<inputVars, X, y, params, preds, w0, f, num_iters, written,
                 held, acquired, tmpSize, outcome, opt_param, objective,
                 invocations, minVars>>

\* switch (loss_type): a failed ASSERT throws out of qnPredict
PredSwitchAbort ==
  /\ pc = "pred_switch"
  /\ ~SwitchOK(loss_type, C)
  /\ outcome' = "assert"
  /\ held' = ReleaseOnUnwind(held, "assert")
  /\ pc' = "done"
  /\ UNCHANGED <<inputVars, X, y, params, preds, w0, f, num_iters, written,
                 acquired, tmpSize, Z, work, opt_param, objective,
                 invocations, minVars>>

\* the decision rule of the selected case
DecisionRule(lt, Zm, c, n) ==
  CASE lt = 0 -> [j \in 1 .. n |-> thresh(Zm[1][j])]
    [] lt = 1 -> Zm[1]
    [] lt = 2 -> argmax(Zm, c, n)

\* switch (loss_type): the rule writes preds, then the call returns
PredSwitchRule ==
  /\ pc = "pred_switch"
  /\ SwitchOK(loss_type, C)
  /\ preds' = DecisionRule(loss_type, Z, C, N)
  /\ written' = written \cup {"preds"}
  /\ outcome' = "normal"
  /\ held' = ReleaseOnUnwind(held, "normal")
  /\ pc' = "done"
  /\ UNCHANGED <<inputVars, X, y, params, w0, f, num_iters, acquired,
                 tmpSize, Z, work, opt_param, objective, invocations, minVars>>

\* ---------------------------------------------------------------- Next
Next ==
  \/ CallFit \/ CallPredict \/ Reset
  \/ FitAlloc \/ FitSwitchAbort \/ FitSwitchLoss \/ QnFit
  \/ GradCheck \/ Direction \/ LineSearchTrial \/ LineSearchExhausted
  \/ CurvatureUpdate \/ Bookkeeping \/ QnFitReturn
  \/ PredAlloc \/ PredLinearFwd \/ PredSwitchAbort \/ PredSwitchRule

Spec == Init /\ [][Next]_vars

\* the steps the running call takes by itself (the host code is sequential
\* and never waits for anything but its own device work)
CallStep ==
  \/ FitAlloc \/ FitSwitchAbort \/ FitSwitchLoss \/ QnFit
  \/ GradCheck \/ Direction \/ LineSearchTrial \/ LineSearchExhausted
  \/ CurvatureUpdate \/ Bookkeeping \/ QnFitReturn
  \/ PredAlloc \/ PredLinearFwd \/ PredSwitchAbort \/ PredSwitchRule

FairSpec == Spec /\ WF_vars(CallStep)

\* =============================================================== claims
Terminal == States \ {"Running"}

FitEnded == pc = "done" /\ kind = "fit"
PredictEnded == pc = "done" /\ kind = "predict"

Accepted(lt, c) ==
  \/ lt = 0 /\ c = 1
  \/ lt = 1 /\ c = 1
  \/ lt = 2 /\ c > 1

\* C1: a qnFit / qnPredict call ends in the fatal assertion outcome exactly
\* when (loss_type, C) is none of (0, C = 1), (1, C = 1), (2, C > 1); a call
\* that got past the switch has an accepted pair.
C1_AcceptedIff ==
  /\ pc = "done" => (outcome = "assert" <=> ~Accepted(loss_type, C))
  /\ pc = "done" => (outcome = "normal" <=> Accepted(loss_type, C))
  /\ pc \in {"qn_fit", "minimize"} => Accepted(loss_type, C)

C1_Witness ==
  PredictEnded /\ loss_type = 2 /\ C = 1 /\ outcome = "assert"

\* C2: after a valid qnPredict call each prediction follows from Z by the
\* rule of loss_type: 1 if z > 0 else 0 (logistic), z itself (squared error),
\* the index of a maximal class score of the sample (softmax).
C2_DecisionRule ==
  (PredictEnded /\ outcome = "normal") =>
    /\ Len(preds) = N
    /\ \A j \in 1 .. N :
         CASE loss_type = 0 ->
                /\ preds[j] \in {0, 1}
                /\ preds[j] = 1 <=> Z[1][j] > 0
           [] loss_type = 1 -> preds[j] = Z[1][j]
           [] loss_type = 2 ->
                /\ preds[j] \in 0 .. C - 1
                /\ \A i \in 1 .. C : Z[i][j] <= Z[preds[j] + 1][j]
           [] OTHER -> FALSE

C2_Witness ==
  /\ PredictEnded /\ outcome = "normal" /\ loss_type = 0
  /\ \E j \in 1 .. N : Z[1][j] = 0 /\ preds[j] = 0
  /\ \E j \in 1 .. N : Z[1][j] > 0 /\ preds[j] = 1

\* C3 as stated: the minimizer is driven on the wrapped loss exactly when
\* l2 > 0, on the unregularized loss for every other l2.
C3_WrappedIffPositive ==
  pc = "minimize" =>
    /\ objective = "regularized" <=> l2 > 0
    /\ objective = "unregularized" <=> ~(l2 > 0)

\* C3 amended: the minimizer is driven on the unregularized loss exactly
\* when l2 = 0, and on the wrapped loss for every other l2, negative ones
\* included.
C3_WrappedIffNonzero ==
  (pc = "minimize" \/ (FitEnded /\ outcome = "normal")) =>
    /\ objective = "regularized" <=> l2 # 0
    /\ objective = "unregularized" <=> l2 = 0

C3_Witness ==
  pc = "minimize" /\ l2 < 0 /\ objective = "regularized" /\ k > 0

\* C4: a call that ends in the assertion outcome has constructed no loss,
\* evaluated no objective, taken no minimizer step, computed no linear
\* predictor, and has written none of its outputs.
C4_AbortBeforeWork ==
  outcome = "assert" =>
    /\ work \cap {"loss", "objective", "step", "linearFwd"} = {}
    /\ written = {}

\* C5: every call acquires its scratch buffer of C * N elements exactly
\* once, and no buffer is held once the call has ended, whatever the exit.
C5_ScratchReleased ==
  /\ held <= 1 /\ acquired <= 1
  /\ pc \in {"idle", "done"} => held = 0
  /\ pc = "done" => acquired = 1 /\ tmpSize = C * N
  /\ pc \notin {"idle", "done", "fit_alloc", "pred_alloc"} => held = 1

C5_Witness ==
  FitEnded /\ outcome = "assert" /\ acquired = 1 /\ held = 0 /\ tmpSize > 0

\* C6: a valid fit that ends at the iteration cap or by a failed line search
\* returns normally, w0 holds the last accepted weights, f and num_iters
\* have been written.
C6_NonConvergenceNormal ==
  (FitEnded /\ status \in {"MaxIterationsReached", "LineSearchFailed"}) =>
    /\ outcome = "normal"
    /\ w0 = lastAccepted
    /\ {"f", "num_iters"} \subseteq written

C6_Witness ==
  /\ FitEnded /\ status = "LineSearchFailed" /\ outcome = "normal"
  /\ k > 0 /\ w0 = lastAccepted /\ "w0" \in written

\* C7: no step of a qnFit call changes X, y (nor params, preds); no step of
\* a qnPredict call changes X, params (nor y, w0, f, num_iters).
C7_Frame ==
  [][pc \notin {"idle", "done"} =>
       /\ X' = X /\ y' = y /\ params' = params
       /\ kind = "fit" => preds' = preds
       /\ kind = "predict" => w0' = w0 /\ f' = f /\ num_iters' = num_iters]_vars

C7_Witness ==
  /\ pc = "minimize" /\ "w0" \in written /\ Z # <<>>
  /\ y = [j \in 1 .. N |-> j % 2]

C9_Absorbing ==
  [][/\ pc = "qn_fit" => status' = "Running"
     /\ pc' = "minimize" => status' \in States
     /\ invocations' <= 1
     /\ FitEnded' /\ outcome' = "normal" => invocations' = 1
     /\ (pc = "minimize" /\ status \in Terminal) =>
          /\ pc' = "done"
          /\ status' = status /\ w0' = w0 /\ hist' = hist
          /\ k' = k /\ trials' = trials /\ pushes' = pushes]_vars

C9_Witness ==
  /\ FitEnded /\ status = "LineSearchFailed" /\ invocations = 1
  /\ trials = linesearch_max_iter /\ linesearch_max_iter > 1

\* C10: the history never holds more than lbfgs_memory pairs (m is
\* lbfgs_memory), holds only pairs of positive product, and a push on a full
\* history drops the oldest pair.
C10_History ==
  [][/\ Len(hist') <= lbfgs_memory'
     /\ pc' = "minimize" => opt_param'.m = lbfgs_memory'
     /\ \A i \in 1 .. Len(hist') : hist'[i].s * hist'[i].y > 0
     /\ (pc = "minimize" /\ pc' = "minimize" /\ pushes' # pushes
           /\ lbfgs_memory > 0) =>
          LET p == hist'[Len(hist')] IN
            hist' = IF Len(hist) < lbfgs_memory
                      THEN Append(hist, p)
                      ELSE Append(Tail(hist), p)]_vars

C10_Witness ==
  /\ pc = "minimize" /\ lbfgs_memory > 0
  /\ pushes > lbfgs_memory /\ Len(hist) = lbfgs_memory
====
